---- MODULE Spec2Model ----
(***************************************************************************)
(* Power manager of the ESP32 edge gateway (edge/esp32/src/low_power_mode). *)
(* The retained record rtc_state, the volatile runtime state, the platform *)
(* state the handlers program (radio, GPIO, wake sources, wake timer) and  *)
(* the processor's position: booting, running, blocked in light sleep, or  *)
(* powered down by esp_deep_sleep_start().                                 *)
(*                                                                         *)
(* Number representation.  TLC integers are 32-bit signed, so:             *)
(*   - a float is its IEEE-754 binary32 bit pattern; all floats here are   *)
(*     non-negative, where the order of the bit patterns is the order of   *)
(*     the values;                                                         *)
(*   - the wake-timer argument, a uint32_t product, is a pair of 16-bit    *)
(*     halves [hi, lo];                                                    *)
(*   - clock readings stay below 2^31 and a handler never reads a time     *)
(*     earlier than last_activity_time, so millis() - last_activity_time   *)
(*     never wraps in the model.                                           *)
(*                                                                         *)
(* What the hardware returns to a handler (the millisecond clock, the ADC) *)
(* is an argument of the handler: t for millis(), raw for adc1_get_raw().  *)
(***************************************************************************)
EXTENDS Integers, Sequences, FiniteSets, Bags, TLC

VARIABLES
    rtc_state,           \* RTC_DATA_ATTR struct, retained across suspension
    config,              \* static power_config_t config
    current_mode,        \* static power_mode_t current_mode
    last_activity_time,  \* static uint32_t last_activity_time
    initialized,         \* static bool initialized
    hw,                  \* platform state programmed through the ESP-IDF calls
    pc,                  \* "boot" | "run" | "light" | "deep": where the CPU is
    wake_cause,          \* what esp_sleep_get_wakeup_cause() returns
    altered,             \* the retained record was altered while powered down
    last_call            \* the most recent API call, as its caller saw it

vars == <<rtc_state, config, current_mode, last_activity_time, initialized,
          hw, pc, wake_cause, altered, last_call>>

----------------------------------------------------------------------------
(* Bounds of the model *)

\* DeepWake is disabled once the record has counted this many wakes.
MaxWake == 1

\* The ULP program is followed until its counter R3 has this value.
MaxUlpCount == 1002

----------------------------------------------------------------------------
(* power_mode_t *)

POWER_MODE_ACTIVE == 0
POWER_MODE_MODEM_SLEEP == 1
POWER_MODE_LIGHT_SLEEP == 2
POWER_MODE_DEEP_SLEEP == 3
POWER_MODE_HIBERNATION == 4

Modes == POWER_MODE_ACTIVE .. POWER_MODE_HIBERNATION

\* sizeof(rtc_state.telemetry_buffer)
BUFFER_SIZE == 256

\* range of uint8_t
U8 == 2^8

\* 16-bit half of a uint32_t
U16 == 2^16

----------------------------------------------------------------------------
(* Inputs *)

\* Readings of millis().  With the default thresholds the differences give
\* the idle times 0 and 15000 (not above idle_timeout/2), 30000 (above
\* idle_timeout/2, not above idle_timeout), 300000 (above idle_timeout, not
\* above deep_sleep_timeout), 315000 and 330000 (above deep_sleep_timeout).
ClockReadings == {0, 15000, 30000, 330000}

\* The first and the last of them: idle times 0 and 330000.
ClockCoarse == {0, 330000}

\* Raw 12-bit readings of adc1_get_raw(ADC1_CHANNEL_6): 1861 -> 2.9987 V and
\* 1862 -> 3.0003 V straddle battery_critical_v; 2048 -> exactly 3.3f, the
\* value of battery_low_v.
AdcReadings == {1861, 1862, 2048}

\* Below battery_critical_v, and not below battery_low_v.
AdcCoarse == {1861, 2048}

\* Payloads handed to power_manager_buffer_telemetry: len bytes, the first
\* and the last given, fill in between.
Payload(len, first, fill, last) ==
    [len |-> len, first |-> first, fill |-> fill, last |-> last]

PayloadByte(p, i) ==
    IF i = 0 THEN p.first ELSE IF i = p.len - 1 THEN p.last ELSE p.fill

Payloads == { Payload(156, 1, 0, 255) }

\* Payloads for the buffer operations: 200 bytes and then 55 (fits: 255),
\* 56 (256, does not fit) or 60; the longest length a uint8_t len can pass;
\* and the empty payload.
BufferPayloads ==
    { Payload(200, 1, 7, 255), Payload(55, 2, 9, 254), Payload(56, 3, 11, 253),
      Payload(60, 4, 5, 252), Payload(255, 5, 13, 251), Payload(0, 0, 0, 0) }

\* The max_len values a caller of get_buffered_telemetry writes.
DrainRequests == {0, 100, 200, 255, 256, 300}

----------------------------------------------------------------------------
(* power_config_t *)

\* Floats as binary32 bit patterns: 3.0f, 3.3f, 3.7f.
DefaultConfig ==
    [ battery_critical_v      |-> 1077936128,
      battery_low_v           |-> 1079194419,
      battery_ok_v            |-> 1080872141,
      idle_timeout_ms         |-> 30000,
      deep_sleep_timeout_ms   |-> 300000,
      telemetry_interval_ms   |-> 60000,
      heartbeat_interval_ms   |-> 300000,
      wake_pin                |-> 33,
      alert_pin               |-> 32,
      enable_ulp              |-> TRUE,
      enable_wifi_modem_sleep |-> TRUE,
      enable_auto_light_sleep |-> TRUE ]

\* Configurations a caller passes to power_manager_init.
UserConfigs ==
    { DefaultConfig,
      [DefaultConfig EXCEPT !.enable_ulp = FALSE,
                            !.enable_wifi_modem_sleep = FALSE] }

\* Configurations with longer intervals: a heartbeat whose x10000 passes
\* 2^32 while its x1000 does not, and intervals whose x1000 passes 2^32
\* (2^32 / 1000 = 4294967.296).
TimerConfigs ==
    { DefaultConfig,
      [DefaultConfig EXCEPT !.heartbeat_interval_ms = 600000],
      [DefaultConfig EXCEPT !.telemetry_interval_ms = 4294968,
                            !.heartbeat_interval_ms = 4294968] }

\* The user_config pointer: {} is NULL, {c} points to c.
UserConfigPtrs == {{}} \cup {{c} : c \in UserConfigs}

\* NULL and a pointer to a copy of the defaults.
DefaultConfigPtrs == {{}, {DefaultConfig}}

----------------------------------------------------------------------------
(* Arithmetic of the C types *)

\* Sum of the four bytes of a 32-bit value below 2^31.
ByteSum32(x) ==
    (x % 256) + ((x \div 256) % 256) + ((x \div 65536) % 256) + (x \div 16777216)

\* uint32_t as two 16-bit halves.
W32(x) == [hi |-> (x \div U16) % U16, lo |-> x % U16]

\* uint32_t multiplication by a small int k (k <= 10000), modulo 2^32.
Mul32(w, k) ==
    [hi |-> (w.hi * k + ((w.lo * k) \div U16)) % U16,
     lo |-> (w.lo * k) % U16]

\* The product ms * k without loss, k <= 10000, as three 16-bit limbs: the
\* value a uint64_t time_in_us holds when nothing overflowed.
Micros(ms, k) ==
    LET w  == W32(ms)
        lo == w.lo * k
        hi == w.hi * k + lo \div U16
    IN  [top |-> hi \div U16, hi |-> hi % U16, lo |-> lo % U16]

\* A uint32_t value widened to uint64_t.
Widen(w) == [top |-> 0, hi |-> w.hi, lo |-> w.lo]

\* (float) of raw * 33 / 20480, rounded to nearest: the binary32 bit pattern.
\* For every raw in 0..4095 this is the pattern of the double computation
\* (raw / 4096.0) * 3.3 * 2.0 converted to float.
FloatBitsOfAdc(raw) ==
    IF raw = 0 THEN 0
    ELSE LET n == raw * 33
             k == CHOOSE j \in 0..15 : 5 * 2^j <= n /\ n < 5 * 2^(j+1)
             N == n * 2^(23 - k)
             q == N \div 5
             r == N % 5
             m == IF 2 * r > 5 THEN q + 1 ELSE q
             e == IF m = 2^24 THEN k - 11 ELSE k - 12
             f == IF m = 2^24 THEN 0 ELSE m - 2^23
         IN  (e + 127) * 2^23 + f

\* static float read_battery_voltage(), for the raw value the ADC returns
read_battery_voltage(raw) == FloatBitsOfAdc(raw)

----------------------------------------------------------------------------
(* The retained record *)

\* uint8_t telemetry_buffer[256] as a map from the offsets that hold a
\* non-zero byte to that byte; every other offset holds 0.
ZeroBuffer == [i \in {} |-> 0]

Byte(buf, i) == IF i \in DOMAIN buf THEN buf[i] ELSE 0

\* The buffer whose byte at offset i is b[i], for b a function on 0..255.
BufferOf(b) == [i \in {j \in 0 .. BUFFER_SIZE - 1 : b[j] # 0} |-> b[i]]

\* memset(&rtc_state, 0, sizeof(rtc_state))
ZeroRecord ==
    [ current_mode           |-> 0,
      sleep_duration_ms      |-> 0,
      wake_count             |-> 0,
      last_active_time       |-> 0,
      battery_voltage        |-> 0,
      critical_alert_pending |-> FALSE,
      telemetry_buffer       |-> ZeroBuffer,
      buffer_index           |-> 0,
      padding                |-> 0,
      checksum               |-> 0 ]

\* sum += ptr[i] over the 256 bytes of the buffer.  The map from offsets to
\* non-zero bytes is a bag, and the sum of its values is the bag's cardinality.
SumBytes(buf) == BagCardinality(buf)

\* Mutant of calculate_checksum: the loop stops at the cursor field.
calculate_checksum_to_cursor(r) ==
      ByteSum32(r.current_mode)
    + ByteSum32(r.sleep_duration_ms)
    + ByteSum32(r.wake_count)
    + ByteSum32(r.last_active_time)
    + ByteSum32(r.battery_voltage)
    + (IF r.critical_alert_pending THEN 1 ELSE 0)
    + SumBytes(r.telemetry_buffer)

\* static uint32_t calculate_checksum(): the sum of the bytes at offsets
\* 0 .. offsetof(checksum) - 1.  padding holds the two bytes the compiler
\* leaves between buffer_index (offset 277) and checksum (offset 280); the
\* memset in init zeroes them and no field store writes them.
\* The sum of 280 bytes is at most 71400, so it never wraps modulo 2^32.
calculate_checksum(r) ==
      ByteSum32(r.current_mode)
    + ByteSum32(r.sleep_duration_ms)
    + ByteSum32(r.wake_count)
    + ByteSum32(r.last_active_time)
    + ByteSum32(r.battery_voltage)
    + (IF r.critical_alert_pending THEN 1 ELSE 0)
    + SumBytes(r.telemetry_buffer)
    + r.buffer_index
    + ByteSum32(r.padding)

----------------------------------------------------------------------------
(* Platform state *)

\* The ULP coprocessor: ip is "idle" before a run, "halted" after I_HALT,
\* otherwise the next instruction of ulp_program; R0 and R3 are its 16-bit
\* registers; woke: I_WAKE was executed in this run.
UlpIdle == [ip |-> "idle", R0 |-> 0, R3 |-> 0, woke |-> FALSE]

\* The immediate of M_BL(1, 1000), line 463.
ULP_LOOP_COUNT == 1000

\* The instructions of ulp_program, lines 447-465.
UlpInstructions ==
    {"movi", "rd_reg", "bge", "wake", "halt_woken", "addi", "bl", "halt_counted"}

\* One instruction of ulp_program; pin: the level of the alert input that
\* I_RD_REG samples.
\*   movi          I_MOVI(R3, 0)
\*   rd_reg        M_LABEL(1)  I_RD_REG(RTC_GPIO_IN_REG, alert bit, alert bit)
\*   bge           M_BGE(2, 1)       branch to label 2 if R0 >= 1
\*   wake          I_WAKE()
\*   halt_woken    I_HALT()
\*   addi          M_LABEL(2)  I_ADDI(R3, R3, 1)
\*   bl            M_BL(1, 1000)     branch to label 1 if R0 < 1000
\*   halt_counted  I_HALT()
ulp_program(u, pin) ==
    CASE u.ip = "movi"         -> [u EXCEPT !.R3 = 0, !.ip = "rd_reg"]
      [] u.ip = "rd_reg"       -> [u EXCEPT !.R0 = pin, !.ip = "bge"]
      [] u.ip = "bge"          -> [u EXCEPT !.ip = IF u.R0 >= 1 THEN "addi"
                                                               ELSE "wake"]
      [] u.ip = "wake"         -> [u EXCEPT !.woke = TRUE, !.ip = "halt_woken"]
      [] u.ip = "halt_woken"   -> [u EXCEPT !.ip = "halted"]
      [] u.ip = "addi"         -> [u EXCEPT !.R3 = (@ + 1) % U16, !.ip = "bl"]
      [] u.ip = "bl"           -> [u EXCEPT !.ip = IF u.R0 < ULP_LOOP_COUNT
                                                 THEN "rd_reg" ELSE "halt_counted"]
      [] u.ip = "halt_counted" -> [u EXCEPT !.ip = "halted"]

\* The platform after a reset or a wake from deep sleep, before init runs.
BootHw ==
    [ wifi_ps        |-> "NONE",
      wifi_started   |-> TRUE,
      bt_enabled     |-> TRUE,
      uart_installed |-> TRUE,
      unused_pins    |-> "default",
      rtc_isolated   |-> FALSE,
      wake_sources   |-> {},
      timer_us       |-> W32(0),
      pm_light_sleep |-> FALSE,
      wake_pin_ready |-> FALSE,
      ulp_loaded     |-> FALSE,
      emitted        |-> {},
      ulp            |-> UlpIdle ]

\* static void configure_gpio_for_sleep()
configure_gpio_for_sleep(h) ==
    [h EXCEPT !.uart_installed = FALSE, !.unused_pins = "input_pulldown"]

\* static void restore_gpio_after_wake()
restore_gpio_after_wake(h) ==
    [h EXCEPT !.uart_installed = TRUE]

\* static void configure_ulp_program(): load the program, set the period
configure_ulp_program(h) ==
    [h EXCEPT !.ulp_loaded = TRUE]

----------------------------------------------------------------------------
(* The program state the handlers read and write, as one value *)

Machine ==
    [ rtc_state          |-> rtc_state,
      config             |-> config,
      current_mode       |-> current_mode,
      last_activity_time |-> last_activity_time,
      initialized        |-> initialized,
      hw                 |-> hw,
      pc                 |-> pc ]

\* The next state is the machine m.
Becomes(m) ==
    /\ rtc_state' = m.rtc_state
    /\ config' = m.config
    /\ current_mode' = m.current_mode
    /\ last_activity_time' = m.last_activity_time
    /\ initialized' = m.initialized
    /\ hw' = m.hw
    /\ pc' = m.pc

----------------------------------------------------------------------------
(* void power_manager_init(power_config_t* user_config) *)

\* Mutant of init_record: a resume is trusted without the checksum test.
init_record_trusting(r, wakeup_reason) ==
    IF wakeup_reason # "UNDEFINED"
    THEN [r EXCEPT !.wake_count = @ + 1]
    ELSE ZeroRecord

\* Mutant of init_record: the incremented wake_count is committed.
init_record_committing(r, wakeup_reason) ==
    IF wakeup_reason # "UNDEFINED"
    THEN IF calculate_checksum(r) = r.checksum
         THEN [r EXCEPT !.wake_count = @ + 1,
                        !.checksum = calculate_checksum(
                                         [r EXCEPT !.wake_count = @ + 1])]
         ELSE ZeroRecord
    ELSE ZeroRecord

\* Lines 116-134: validate or zero the retained record.
init_record(r, wakeup_reason) ==
    IF wakeup_reason # "UNDEFINED"
    THEN IF calculate_checksum(r) = r.checksum
         THEN [r EXCEPT !.wake_count = @ + 1]
         ELSE ZeroRecord
    ELSE ZeroRecord

\* Mutant of power_manager_init: an accepted record's mode becomes the
\* current mode.
power_manager_init_resuming_mode(m, user_config, wakeup_reason, t) ==
    LET cfg == IF user_config # {} THEN CHOOSE c \in user_config : TRUE
                                   ELSE m.config
        h1  == [m.hw EXCEPT !.pm_light_sleep = cfg.enable_auto_light_sleep,
                            !.wake_pin_ready = TRUE]
        h2  == IF cfg.enable_ulp THEN configure_ulp_program(h1) ELSE h1
        r   == init_record(m.rtc_state, wakeup_reason)
    IN  [m EXCEPT !.config = cfg,
                  !.rtc_state = r,
                  !.current_mode = r.current_mode,
                  !.hw = h2,
                  !.last_activity_time = t,
                  !.initialized = TRUE,
                  !.pc = "run"]

\* t: what millis() returns at line 157.
power_manager_init(m, user_config, wakeup_reason, t) ==
    LET cfg == IF user_config # {} THEN CHOOSE c \in user_config : TRUE
                                   ELSE m.config
        h1  == [m.hw EXCEPT !.pm_light_sleep = cfg.enable_auto_light_sleep,
                            !.wake_pin_ready = TRUE]
        h2  == IF cfg.enable_ulp THEN configure_ulp_program(h1) ELSE h1
    IN  [m EXCEPT !.config = cfg,
                  !.rtc_state = init_record(m.rtc_state, wakeup_reason),
                  !.hw = h2,
                  !.last_activity_time = t,
                  !.initialized = TRUE,
                  !.pc = "run"]

\* What the caller of a handler sees when the handler ends in machine m.
Outcome(m, returned) ==
    CASE m.pc = "run"   -> returned
      [] m.pc = "light" -> "blocked"
      [] m.pc = "deep"  -> "noreturn"

----------------------------------------------------------------------------
(* bool power_manager_set_mode(power_mode_t mode) *)

\* case POWER_MODE_ACTIVE
enter_active(m) ==
    [m EXCEPT !.hw = [restore_gpio_after_wake(m.hw) EXCEPT
                         !.wifi_ps = IF m.config.enable_wifi_modem_sleep
                                     THEN "NONE" ELSE @],
              !.current_mode = POWER_MODE_ACTIVE]

\* case POWER_MODE_MODEM_SLEEP
enter_modem_sleep(m) ==
    [m EXCEPT !.hw.wifi_ps = "MIN_MODEM",
              !.current_mode = POWER_MODE_MODEM_SLEEP]

\* Mutant of enter_light_sleep: the interval is added to the duration
\* programmed before.
enter_light_sleep_adding_interval(m) ==
    LET us == Mul32(W32(m.config.telemetry_interval_ms), 1000)
        lo == m.hw.timer_us.lo + us.lo
        hi == m.hw.timer_us.hi + us.hi + lo \div U16
    IN  [m EXCEPT !.hw = [configure_gpio_for_sleep(m.hw) EXCEPT
                             !.wifi_ps = "MAX_MODEM",
                             !.timer_us = [hi |-> hi % U16, lo |-> lo % U16],
                             !.wake_sources = @ \cup {"TIMER", "EXT0"}],
                  !.pc = "light"]

\* case POWER_MODE_LIGHT_SLEEP, up to esp_light_sleep_start(): the caller is
\* blocked there; current_mode is written only after the wake.
enter_light_sleep(m) ==
    [m EXCEPT !.hw = [configure_gpio_for_sleep(m.hw) EXCEPT
                         !.wifi_ps = "MAX_MODEM",
                         !.timer_us = Mul32(W32(m.config.telemetry_interval_ms), 1000),
                         !.wake_sources = @ \cup {"TIMER", "EXT0"}],
              !.pc = "light"]

\* Mutant of resume_light_sleep: the activity timer is not reset at the wake.
resume_light_sleep_keeps_timer(m, t) ==
    [m EXCEPT !.hw = restore_gpio_after_wake(m.hw),
              !.current_mode = POWER_MODE_LIGHT_SLEEP,
              !.pc = "run"]

\* case POWER_MODE_LIGHT_SLEEP after esp_light_sleep_start() has returned,
\* and the common tail of set_mode (lines 199-202, 261-262); t: millis().
resume_light_sleep(m, t) ==
    [m EXCEPT !.hw = restore_gpio_after_wake(m.hw),
              !.last_activity_time = t,
              !.current_mode = POWER_MODE_LIGHT_SLEEP,
              !.pc = "run"]

\* esp_deep_sleep_start(): the CPU and the RAM are powered down, so the
\* statics have their load-time values (lines 80-98) from here on; the RTC
\* memory and the programmed wake sources stay.
esp_deep_sleep_start(m) ==
    [m EXCEPT !.config = DefaultConfig,
              !.current_mode = POWER_MODE_ACTIVE,
              !.last_activity_time = 0,
              !.initialized = FALSE,
              !.pc = "deep"]

\* rtc_state.checksum = calculate_checksum()
commit(r) == [r EXCEPT !.checksum = calculate_checksum(r)]

\* Mutant of persist_deep_sleep: the checksum is taken before the stores.
persist_deep_sleep_commit_first(r, raw, t) ==
    [commit(r) EXCEPT !.current_mode = POWER_MODE_DEEP_SLEEP,
                      !.last_active_time = t,
                      !.battery_voltage = read_battery_voltage(raw)]

\* Lines 205-209: save state before deep sleep.
persist_deep_sleep(r, raw, t) ==
    commit([r EXCEPT !.current_mode = POWER_MODE_DEEP_SLEEP,
                     !.last_active_time = t,
                     !.battery_voltage = read_battery_voltage(raw)])

\* static void send_minimal_telemetry(): what the emission reads from the
\* record (lines 504-505) and the state of the transports it is made in.
\* hw.emitted holds the emission of this boot, {} when there was none.
send_minimal_telemetry(m) ==
    [m EXCEPT !.hw.emitted =
                  {[ battery_voltage |-> m.rtc_state.battery_voltage,
                     mode            |-> m.rtc_state.current_mode,
                     committed       |-> m.rtc_state.checksum
                                           = calculate_checksum(m.rtc_state),
                     wifi_started    |-> m.hw.wifi_started,
                     uart_installed  |-> m.hw.uart_installed ]}]

\* Lines 218-219: esp_wifi_stop(); esp_bt_controller_disable()
radios_off(h) == [h EXCEPT !.wifi_started = FALSE, !.bt_enabled = FALSE]

\* Lines 222-227: the wake sources of deep sleep.
deep_sleep_wake_sources(h, cfg) ==
    [h EXCEPT !.timer_us = Mul32(W32(cfg.heartbeat_interval_ms), 1000),
              !.wake_sources = @ \cup {"TIMER", "EXT0"}
                                 \cup (IF cfg.enable_ulp THEN {"ULP"} ELSE {})]

\* Mutant of prepare_deep_sleep: the telemetry is sent after the radios are
\* stopped.
prepare_deep_sleep_emit_after_radios(m, raw, t) ==
    LET m1 == [m EXCEPT !.rtc_state = persist_deep_sleep(m.rtc_state, raw, t)]
        m2 == [m1 EXCEPT !.hw = radios_off(configure_gpio_for_sleep(m1.hw))]
        m3 == send_minimal_telemetry(m2)
    IN  [m3 EXCEPT !.hw = deep_sleep_wake_sources(m3.hw, m3.config)]

\* Mutant of prepare_deep_sleep: the ULP wake is enabled whatever
\* config.enable_ulp says.
prepare_deep_sleep_ulp_always(m, raw, t) ==
    LET m1 == [m EXCEPT !.rtc_state = persist_deep_sleep(m.rtc_state, raw, t)]
        m2 == send_minimal_telemetry(m1)
        m3 == [m2 EXCEPT !.hw = radios_off(configure_gpio_for_sleep(m2.hw))]
    IN  [m3 EXCEPT !.hw = [deep_sleep_wake_sources(m3.hw, m3.config) EXCEPT
                              !.wake_sources = @ \cup {"ULP"}]]

\* case POWER_MODE_DEEP_SLEEP, lines 205-230, in the order of the code:
\* save state, send telemetry, GPIO, radios, wake sources.
prepare_deep_sleep(m, raw, t) ==
    LET m1 == [m EXCEPT !.rtc_state = persist_deep_sleep(m.rtc_state, raw, t)]
        m2 == send_minimal_telemetry(m1)
        m3 == [m2 EXCEPT !.hw = radios_off(configure_gpio_for_sleep(m2.hw))]
    IN  [m3 EXCEPT !.hw = deep_sleep_wake_sources(m3.hw, m3.config)]

\* case POWER_MODE_DEEP_SLEEP: esp_deep_sleep_start() does not return.
enter_deep_sleep(m, raw, t) ==
    esp_deep_sleep_start(prepare_deep_sleep(m, raw, t))

\* Mutant of persist_hibernation: the checksum is taken before the store.
persist_hibernation_commit_first(r) ==
    [commit(r) EXCEPT !.current_mode = POWER_MODE_HIBERNATION]

\* Lines 239-240: what hibernation writes into the record.
persist_hibernation(r) ==
    commit([r EXCEPT !.current_mode = POWER_MODE_HIBERNATION])

\* Lines 248-252: rtc_gpio_isolate on every RTC GPIO but the wake pin.  The
\* pins of configure_gpio_for_sleep (0, 2, 4, 12-15, 25-27) are RTC GPIOs
\* and none is the wake pin, so the isolation replaces their setting.
isolate_rtc_gpio(h) == [h EXCEPT !.rtc_isolated = TRUE, !.unused_pins = "isolated"]

\* case POWER_MODE_HIBERNATION, lines 239-255.
prepare_hibernation(m) ==
    [m EXCEPT !.rtc_state = persist_hibernation(m.rtc_state),
              !.hw = isolate_rtc_gpio(
                     [m.hw EXCEPT
                         !.timer_us = Mul32(Mul32(W32(m.config.heartbeat_interval_ms),
                                                  1000), 10),
                         !.wake_sources = {"TIMER", "EXT0"}])]

\* case POWER_MODE_HIBERNATION: esp_deep_sleep_start() does not return.
enter_hibernation(m) ==
    esp_deep_sleep_start(prepare_hibernation(m))

\* Mutant of power_manager_set_mode: no early return when mode is current.
set_mode_no_guard(m, mode, raw, t) ==
    CASE mode = POWER_MODE_ACTIVE      -> enter_active(m)
      [] mode = POWER_MODE_MODEM_SLEEP -> enter_modem_sleep(m)
      [] mode = POWER_MODE_LIGHT_SLEEP -> enter_light_sleep(m)
      [] mode = POWER_MODE_DEEP_SLEEP  -> enter_deep_sleep(m, raw, t)
      [] mode = POWER_MODE_HIBERNATION -> enter_hibernation(m)

\* raw, t: what the ADC and millis() return if this call reads them
\* (lines 207-208).
power_manager_set_mode(m, mode, raw, t) ==
    IF mode = m.current_mode THEN m
    ELSE CASE mode = POWER_MODE_ACTIVE      -> enter_active(m)
           [] mode = POWER_MODE_MODEM_SLEEP -> enter_modem_sleep(m)
           [] mode = POWER_MODE_LIGHT_SLEEP -> enter_light_sleep(m)
           [] mode = POWER_MODE_DEEP_SLEEP  -> enter_deep_sleep(m, raw, t)
           [] mode = POWER_MODE_HIBERNATION -> enter_hibernation(m)

\* What set_mode does when esp_deep_sleep_start() comes back to it: break
\* (line 235 or 258), then current_mode = mode; return true (lines 261-262).
suspend_returned(m, mode) ==
    [m EXCEPT !.current_mode = mode]

\* set_mode(DEEP_SLEEP or HIBERNATION) with a suspend call that fails and
\* returns.
set_mode_suspend_fails(m, mode, raw, t) ==
    IF mode = m.current_mode THEN m
    ELSE CASE mode = POWER_MODE_DEEP_SLEEP
                -> suspend_returned(prepare_deep_sleep(m, raw, t), mode)
           [] mode = POWER_MODE_HIBERNATION
                -> suspend_returned(prepare_hibernation(m), mode)

----------------------------------------------------------------------------
(* void power_manager_activity() *)

\* Mutant of power_manager_activity: the timestamp only, no return to ACTIVE.
activity_timestamp_only(m, t) ==
    [m EXCEPT !.last_activity_time = t]

\* t: what millis() returns at line 276.
power_manager_activity(m, t) ==
    LET m1 == [m EXCEPT !.last_activity_time = t]
    IN  IF m1.current_mode # POWER_MODE_ACTIVE
        THEN power_manager_set_mode(m1, POWER_MODE_ACTIVE, 0, t)
        ELSE m1

----------------------------------------------------------------------------
(* Telemetry staging buffer *)

\* Mutant of buffer_full: > in place of >=.
buffer_full_off_by_one(r, len) == r.buffer_index + len > BUFFER_SIZE

\* bool power_manager_buffer_telemetry(uint8_t* data, uint8_t len): the guard
buffer_full(r, len) == r.buffer_index + len >= BUFFER_SIZE

\* Mutant of buffer_store: the copy goes to the start of the buffer.
buffer_store_at_start(r, p) ==
    [r EXCEPT !.telemetry_buffer =
                  BufferOf([i \in 0 .. BUFFER_SIZE - 1 |->
                               IF i < p.len
                               THEN PayloadByte(p, i)
                               ELSE Byte(r.telemetry_buffer, i)]),
              !.buffer_index = (@ + p.len) % U8]

\* memcpy(&telemetry_buffer[buffer_index], data, len); buffer_index += len
buffer_store(r, p) ==
    [r EXCEPT !.telemetry_buffer =
                  BufferOf([i \in 0 .. BUFFER_SIZE - 1 |->
                               IF i >= r.buffer_index /\ i < r.buffer_index + p.len
                               THEN PayloadByte(p, i - r.buffer_index)
                               ELSE Byte(r.telemetry_buffer, i)]),
              !.buffer_index = (@ + p.len) % U8]

\* Mutant of power_manager_buffer_telemetry: a payload that does not fit is
\* cut to the room left, and false returned.
buffer_telemetry_truncating(r, p) ==
    IF buffer_full(r, p.len)
    THEN [r EXCEPT !.telemetry_buffer =
                       BufferOf([i \in 0 .. BUFFER_SIZE - 1 |->
                                    IF i >= r.buffer_index
                                    THEN PayloadByte(p, i - r.buffer_index)
                                    ELSE Byte(r.telemetry_buffer, i)])]
    ELSE buffer_store(r, p)

power_manager_buffer_telemetry(r, p) ==
    IF buffer_full(r, p.len) THEN r ELSE buffer_store(r, p)

\* uint8_t power_manager_get_buffered_telemetry(uint8_t* buffer, uint8_t max_len):
\* the returned length; the argument is converted to uint8_t at the call.
power_manager_get_buffered_telemetry(r, requested) ==
    LET max_len == requested % U8
    IN  IF r.buffer_index < max_len THEN r.buffer_index ELSE max_len

\* memcpy(buffer, rtc_state.telemetry_buffer, len): the bytes the caller's
\* buffer receives, as a function on 0 .. len - 1.
buffered_telemetry_copy(r, requested) ==
    [i \in 0 .. power_manager_get_buffered_telemetry(r, requested) - 1 |->
        Byte(r.telemetry_buffer, i)]

\* Mutant of power_manager_clear_buffer: the cursor is reset, the storage is
\* not zero-filled.
clear_buffer_cursor_only(r) == [r EXCEPT !.buffer_index = 0]

\* Mutant of power_manager_clear_buffer: the memset covers the whole record.
clear_buffer_whole_record(r) == ZeroRecord

\* void power_manager_clear_buffer()
power_manager_clear_buffer(r) ==
    [r EXCEPT !.buffer_index = 0, !.telemetry_buffer = ZeroBuffer]

----------------------------------------------------------------------------
(* void power_manager_set_alert(bool alert), bool power_manager_has_alert() *)

\* Mutant of power_manager_set_alert: > in place of >= POWER_MODE_LIGHT_SLEEP.
set_alert_above_light_sleep(m, alert) ==
    LET m1 == [m EXCEPT !.rtc_state.critical_alert_pending = alert]
    IN  IF alert /\ m1.current_mode > POWER_MODE_LIGHT_SLEEP
        THEN power_manager_set_mode(m1, POWER_MODE_ACTIVE, 0, 0)
        ELSE m1

power_manager_set_alert(m, alert) ==
    LET m1 == [m EXCEPT !.rtc_state.critical_alert_pending = alert]
    IN  IF alert /\ m1.current_mode >= POWER_MODE_LIGHT_SLEEP
        THEN power_manager_set_mode(m1, POWER_MODE_ACTIVE, 0, 0)
        ELSE m1

power_manager_has_alert(r) == r.critical_alert_pending

----------------------------------------------------------------------------
(* void power_manager_process() *)

\* Mutant of process_target: the idle rules of ACTIVE come before the
\* battery rules.
process_target_idle_first(cur, cfg, idle_time, battery_v) ==
    IF cur = POWER_MODE_ACTIVE /\ idle_time > cfg.deep_sleep_timeout_ms
    THEN POWER_MODE_DEEP_SLEEP
    ELSE IF cur = POWER_MODE_ACTIVE /\ idle_time > cfg.idle_timeout_ms
    THEN POWER_MODE_LIGHT_SLEEP
    ELSE IF battery_v < cfg.battery_critical_v THEN POWER_MODE_HIBERNATION
    ELSE IF battery_v < cfg.battery_low_v /\ idle_time > cfg.idle_timeout_ms \div 2
         THEN POWER_MODE_DEEP_SLEEP
    ELSE IF cur = POWER_MODE_ACTIVE /\ idle_time > cfg.idle_timeout_ms \div 2
         THEN POWER_MODE_MODEM_SLEEP
    ELSE -1

\* Mutant of process_target: the low-battery rule sits inside the
\* current_mode == ACTIVE block.
process_target_low_in_active(cur, cfg, idle_time, battery_v) ==
    IF battery_v < cfg.battery_critical_v THEN POWER_MODE_HIBERNATION
    ELSE IF cur = POWER_MODE_ACTIVE
         THEN IF battery_v < cfg.battery_low_v
                 /\ idle_time > cfg.idle_timeout_ms \div 2
              THEN POWER_MODE_DEEP_SLEEP
              ELSE IF idle_time > cfg.deep_sleep_timeout_ms THEN POWER_MODE_DEEP_SLEEP
              ELSE IF idle_time > cfg.idle_timeout_ms THEN POWER_MODE_LIGHT_SLEEP
              ELSE IF idle_time > cfg.idle_timeout_ms \div 2
                   THEN POWER_MODE_MODEM_SLEEP
              ELSE -1
    ELSE -1

\* Mutant of process_target: idle_timeout is tested before
\* deep_sleep_timeout.
process_target_light_first(cur, cfg, idle_time, battery_v) ==
    IF battery_v < cfg.battery_critical_v THEN POWER_MODE_HIBERNATION
    ELSE IF battery_v < cfg.battery_low_v /\ idle_time > cfg.idle_timeout_ms \div 2
         THEN POWER_MODE_DEEP_SLEEP
    ELSE IF cur = POWER_MODE_ACTIVE
         THEN IF idle_time > cfg.idle_timeout_ms THEN POWER_MODE_LIGHT_SLEEP
              ELSE IF idle_time > cfg.deep_sleep_timeout_ms THEN POWER_MODE_DEEP_SLEEP
              ELSE IF idle_time > cfg.idle_timeout_ms \div 2
                   THEN POWER_MODE_MODEM_SLEEP
              ELSE -1
    ELSE -1

\* Mutant of process_target: the idle rules apply in every mode.
process_target_any_mode(cur, cfg, idle_time, battery_v) ==
    IF battery_v < cfg.battery_critical_v THEN POWER_MODE_HIBERNATION
    ELSE IF battery_v < cfg.battery_low_v /\ idle_time > cfg.idle_timeout_ms \div 2
         THEN POWER_MODE_DEEP_SLEEP
    ELSE IF idle_time > cfg.deep_sleep_timeout_ms THEN POWER_MODE_DEEP_SLEEP
    ELSE IF idle_time > cfg.idle_timeout_ms THEN POWER_MODE_LIGHT_SLEEP
    ELSE IF idle_time > cfg.idle_timeout_ms \div 2 THEN POWER_MODE_MODEM_SLEEP
    ELSE -1

\* The mode process() passes to set_mode, or -1 when it calls nothing, for
\* the idle time and battery voltage it has read.
process_target(cur, cfg, idle_time, battery_v) ==
    IF battery_v < cfg.battery_critical_v THEN POWER_MODE_HIBERNATION
    ELSE IF battery_v < cfg.battery_low_v /\ idle_time > cfg.idle_timeout_ms \div 2
         THEN POWER_MODE_DEEP_SLEEP
    ELSE IF cur = POWER_MODE_ACTIVE
         THEN IF idle_time > cfg.deep_sleep_timeout_ms THEN POWER_MODE_DEEP_SLEEP
              ELSE IF idle_time > cfg.idle_timeout_ms THEN POWER_MODE_LIGHT_SLEEP
              ELSE IF idle_time > cfg.idle_timeout_ms \div 2
                   THEN POWER_MODE_MODEM_SLEEP
              ELSE -1
    ELSE -1

\* t, raw: what millis() and the ADC return to process (lines 342-343);
\* raw2: what the ADC returns to the set_mode call process makes.
power_manager_process(m, t, raw, raw2) ==
    IF ~m.initialized THEN m
    ELSE LET idle_time == t - m.last_activity_time
             battery_v == read_battery_voltage(raw)
             target    == process_target(m.current_mode, m.config,
                                         idle_time, battery_v)
         IN  IF target = -1 THEN m
             ELSE power_manager_set_mode(m, target, raw2, t)

----------------------------------------------------------------------------
(* Calls and their results *)

\* op, arg: the function called and its argument (for process: the raw ADC
\* value it read); ret: what it returned, "blocked" while it waits in
\* esp_light_sleep_start(), "noreturn" after esp_deep_sleep_start();
\* from: current_mode when it was called; t: the clock reading it stored,
\* if it stored one; idle: the idle time process computed.
Call(op, arg, ret, from, t, idle) ==
    [op |-> op, arg |-> arg, ret |-> ret, from |-> from, t |-> t, idle |-> idle]

NoCall == Call("none", 0, "void", 0, 0, 0)

----------------------------------------------------------------------------
(* Initial state: power-on, before setup() has called power_manager_init *)

Init ==
    /\ rtc_state = ZeroRecord
    /\ config = DefaultConfig
    /\ current_mode = POWER_MODE_ACTIVE
    /\ last_activity_time = 0
    /\ initialized = FALSE
    /\ hw = BootHw
    /\ pc = "boot"
    /\ wake_cause = "UNDEFINED"
    /\ altered = FALSE
    /\ last_call = NoCall

----------------------------------------------------------------------------
(* The application's calls; init is the first call of every boot *)

DoInit(user_config, t) ==
    /\ pc = "boot"
    /\ Becomes(power_manager_init(Machine, user_config, wake_cause, t))
    /\ altered' = FALSE
    /\ last_call' = Call("init", 0, "void", current_mode, t, 0)
    /\ UNCHANGED wake_cause

\* power_manager_init called again in the same boot:
\* esp_sleep_get_wakeup_cause() returns what it returned to the first call.
DoInitAgain(user_config, t) ==
    /\ pc = "run"
    /\ t >= last_activity_time
    /\ Becomes(power_manager_init(Machine, user_config, wake_cause, t))
    /\ last_call' = Call("init", 0, "void", current_mode, t, 0)
    /\ UNCHANGED <<wake_cause, altered>>

DoSetMode(mode, raw, t) ==
    /\ pc = "run"
    /\ LET m == power_manager_set_mode(Machine, mode, raw, t)
       IN  /\ Becomes(m)
           /\ last_call' = Call("set_mode", mode, Outcome(m, "true"), current_mode,
                                IF mode = POWER_MODE_DEEP_SLEEP /\ mode # current_mode
                                THEN t ELSE 0, 0)
    /\ UNCHANGED <<wake_cause, altered>>

DoActivity(t) ==
    /\ pc = "run"
    /\ LET m == power_manager_activity(Machine, t)
       IN  /\ Becomes(m)
           /\ last_call' = Call("activity", 0, Outcome(m, "void"), current_mode, t, 0)
    /\ UNCHANGED <<wake_cause, altered>>

DoBufferTelemetry(p) ==
    /\ pc = "run"
    /\ rtc_state' = power_manager_buffer_telemetry(rtc_state, p)
    /\ last_call' = Call("buffer_telemetry", p.len,
                         IF buffer_full(rtc_state, p.len) THEN "false" ELSE "true",
                         current_mode, 0, 0)
    /\ UNCHANGED <<config, current_mode, last_activity_time, initialized, hw, pc,
                   wake_cause, altered>>

DoClearBuffer ==
    /\ pc = "run"
    /\ rtc_state' = power_manager_clear_buffer(rtc_state)
    /\ last_call' = Call("clear_buffer", rtc_state.buffer_index, "void",
                         current_mode, 0, 0)
    /\ UNCHANGED <<config, current_mode, last_activity_time, initialized, hw, pc,
                   wake_cause, altered>>

\* requested: the max_len the caller writes; the result is the returned
\* length and the bytes copied out.
DoGetBufferedTelemetry(requested) ==
    /\ pc = "run"
    /\ last_call' = Call("get_buffered_telemetry", requested,
                         [len   |-> power_manager_get_buffered_telemetry(
                                        rtc_state, requested),
                          bytes |-> buffered_telemetry_copy(rtc_state, requested)],
                         current_mode, 0, 0)
    /\ UNCHANGED <<rtc_state, config, current_mode, last_activity_time,
                   initialized, hw, pc, wake_cause, altered>>

DoSetAlert(alert) ==
    /\ pc = "run"
    /\ LET m == power_manager_set_alert(Machine, alert)
       IN  /\ Becomes(m)
           /\ last_call' = Call("set_alert", IF alert THEN 1 ELSE 0,
                                Outcome(m, "void"), current_mode, 0, 0)
    /\ UNCHANGED <<wake_cause, altered>>

DoProcess(t, raw, raw2) ==
    /\ pc = "run"
    /\ LET m == power_manager_process(Machine, t, raw, raw2)
       IN  /\ Becomes(m)
           /\ last_call' = Call("process", raw, Outcome(m, "void"), current_mode,
                                0, t - last_activity_time)
    /\ UNCHANGED <<wake_cause, altered>>

----------------------------------------------------------------------------
(* The environment *)

\* The wake events that occur: the wake timer expires, the wake pin falls.
\* The ULP program is loaded by configure_ulp_program but never started, so
\* it raises no wake.
WakeEvents == {"TIMER", "EXT0"}

\* A programmed wake source ends the light sleep: esp_light_sleep_start()
\* returns and set_mode runs to its end.
LightWake(c, t) ==
    /\ pc = "light"
    /\ c \in hw.wake_sources
    /\ wake_cause' = c
    /\ Becomes(resume_light_sleep(Machine, t))
    /\ last_call' = [last_call EXCEPT
                        !.ret = IF last_call.op = "set_mode" THEN "true" ELSE "void"]
    /\ UNCHANGED altered

\* A programmed wake source ends the deep sleep or the hibernation: the chip
\* restarts, RAM and peripherals at their reset values, RTC memory retained.
DeepWake(c) ==
    /\ pc = "deep"
    /\ rtc_state.wake_count < MaxWake
    /\ c \in hw.wake_sources
    /\ wake_cause' = c
    /\ pc' = "boot"
    /\ hw' = [BootHw EXCEPT !.ulp_loaded = hw.ulp_loaded]
    /\ last_call' = NoCall
    /\ UNCHANGED <<rtc_state, config, current_mode, last_activity_time,
                   initialized, altered>>

\* Ways the retained record can be altered while the chip is powered down:
\* one byte of a field, or two bytes whose changes cancel in the byte sum.
Corruptions(r) ==
    LET bumped == BufferOf([i \in 0 .. BUFFER_SIZE - 1 |->
                               IF i = 0 THEN (Byte(r.telemetry_buffer, 0) + 1) % U8
                               ELSE Byte(r.telemetry_buffer, i)])
    IN  { [r EXCEPT !.critical_alert_pending = ~@],
          [r EXCEPT !.telemetry_buffer = bumped],
          [r EXCEPT !.checksum = @ + 1] }
        \cup (IF r.critical_alert_pending /\ Byte(r.telemetry_buffer, 0) < U8 - 1
              THEN { [r EXCEPT !.critical_alert_pending = FALSE,
                               !.telemetry_buffer = bumped] }
              ELSE {})

Corrupt ==
    /\ pc = "deep"
    /\ ~altered
    /\ \E r \in Corruptions(rtc_state) : rtc_state' = r
    /\ altered' = TRUE
    /\ last_call' = NoCall
    /\ UNCHANGED <<config, current_mode, last_activity_time, initialized, hw, pc,
                   wake_cause>>

\* Byte k of the little-endian word x, and the word with that byte set to b.
WordByte(x, k) == (x \div (U8 ^ k)) % U8
WithWordByte(x, k, b) == x + (b - WordByte(x, k)) * (U8 ^ k)

\* The values that replace byte k, holding b, of a word: one more and one
\* less modulo 256; the top byte of a 32-bit word stays below 128.
OtherBytes(b, k) ==
    IF k = 3 THEN {(b + 1) % 128} ELSE {(b + 1) % U8, (b + U8 - 1) % U8}

\* The words that differ from the size-byte word x in exactly one byte.
WordChanges(x, size) ==
    UNION { { WithWordByte(x, k, b) : b \in OtherBytes(WordByte(x, k), k) } :
            k \in 0 .. size - 1 }

\* The records that differ from r in exactly one of the 280 bytes before the
\* checksum field.
SingleByteChanges(r) ==
         { [r EXCEPT !.current_mode = x] : x \in WordChanges(r.current_mode, 4) }
    \cup { [r EXCEPT !.sleep_duration_ms = x] :
               x \in WordChanges(r.sleep_duration_ms, 4) }
    \cup { [r EXCEPT !.wake_count = x] : x \in WordChanges(r.wake_count, 4) }
    \cup { [r EXCEPT !.last_active_time = x] :
               x \in WordChanges(r.last_active_time, 4) }
    \cup { [r EXCEPT !.battery_voltage = x] :
               x \in WordChanges(r.battery_voltage, 4) }
    \cup { [r EXCEPT !.critical_alert_pending = ~@] }
    \cup UNION { { [r EXCEPT !.telemetry_buffer =
                        BufferOf([j \in 0 .. BUFFER_SIZE - 1 |->
                                     IF j = i THEN b
                                     ELSE Byte(r.telemetry_buffer, j)])] :
                    b \in OtherBytes(Byte(r.telemetry_buffer, i), 0) } :
                i \in 0 .. BUFFER_SIZE - 1 }
    \cup { [r EXCEPT !.buffer_index = x] : x \in WordChanges(r.buffer_index, 1) }
    \cup { [r EXCEPT !.padding = x] : x \in WordChanges(r.padding, 2) }

\* The records that differ from r in one byte of the checksum field.
ChecksumFieldChanges(r) ==
    { [r EXCEPT !.checksum = x] : x \in WordChanges(r.checksum, 4) }

\* One byte of the retained record changes while the chip is powered down.
AlterByte ==
    /\ pc = "deep"
    /\ ~altered
    /\ rtc_state' \in SingleByteChanges(rtc_state) \cup ChecksumFieldChanges(rtc_state)
    /\ altered' = TRUE
    /\ last_call' = NoCall
    /\ UNCHANGED <<config, current_mode, last_activity_time, initialized, hw, pc,
                   wake_cause>>

\* Power loss or external reset: a cold boot.  Whatever the record holds is
\* left for init to deal with.
Reset ==
    /\ pc \in {"run", "light", "deep"}
    /\ pc' = "boot"
    /\ wake_cause' = "UNDEFINED"
    /\ config' = DefaultConfig
    /\ current_mode' = POWER_MODE_ACTIVE
    /\ last_activity_time' = 0
    /\ initialized' = FALSE
    /\ hw' = BootHw
    /\ altered' = FALSE
    /\ last_call' = NoCall
    /\ UNCHANGED rtc_state

----------------------------------------------------------------------------

\* Every operation, on the coarse inputs.
Next ==
    \/ \E uc \in DefaultConfigPtrs, t \in ClockCoarse : DoInit(uc, t)
    \/ \E mode \in Modes, raw \in AdcCoarse, t \in ClockCoarse :
          t >= last_activity_time /\ DoSetMode(mode, raw, t)
    \/ \E t \in ClockCoarse : t >= last_activity_time /\ DoActivity(t)
    \/ \E p \in Payloads : DoBufferTelemetry(p)
    \/ DoClearBuffer
    \/ \E alert \in BOOLEAN : DoSetAlert(alert)
    \/ \E t \in ClockCoarse, raw \in AdcCoarse, raw2 \in AdcCoarse :
          t >= last_activity_time /\ DoProcess(t, raw, raw2)
    \/ \E c \in WakeEvents, t \in ClockCoarse :
          t >= last_activity_time /\ LightWake(c, t)
    \/ \E c \in WakeEvents : DeepWake(c)
    \/ Corrupt
    \/ Reset

Spec == Init /\ [][Next]_vars

\* The power policy on every clock reading, battery reading and
\* configuration; the telemetry buffer is left alone and a deep sleep ends
\* with a reset.
NextPolicy ==
    \/ \E uc \in UserConfigPtrs, t \in ClockReadings : DoInit(uc, t)
    \/ \E mode \in Modes, raw \in AdcReadings, t \in ClockReadings :
          t >= last_activity_time /\ DoSetMode(mode, raw, t)
    \/ \E t \in ClockReadings : t >= last_activity_time /\ DoActivity(t)
    \/ \E alert \in BOOLEAN : DoSetAlert(alert)
    \/ \E t \in ClockReadings, raw \in AdcReadings, raw2 \in AdcReadings :
          t >= last_activity_time /\ DoProcess(t, raw, raw2)
    \/ \E c \in WakeEvents, t \in ClockReadings :
          t >= last_activity_time /\ LightWake(c, t)
    \/ Reset

SpecPolicy == Init /\ [][NextPolicy]_vars

----------------------------------------------------------------------------
(* The platform's suspend call failing *)

\* set_mode(mode) for a powered-down mode, where esp_deep_sleep_start() fails
\* and returns to set_mode.
DoSetModeSuspendFails(mode, raw, t) ==
    /\ pc = "run"
    /\ mode \in {POWER_MODE_DEEP_SLEEP, POWER_MODE_HIBERNATION}
    /\ mode # current_mode
    /\ LET m == set_mode_suspend_fails(Machine, mode, raw, t)
       IN  /\ Becomes(m)
           /\ last_call' = Call("set_mode", mode, Outcome(m, "true"), current_mode,
                                IF mode = POWER_MODE_DEEP_SLEEP THEN t ELSE 0, 0)
    /\ UNCHANGED <<wake_cause, altered>>

\* The mode changes, on the coarse inputs, on a platform whose suspend call
\* can fail.
NextFault ==
    \/ \E c \in DefaultConfigPtrs, t \in ClockCoarse : DoInit(c, t)
    \/ \E mode \in Modes, raw \in AdcCoarse, t \in ClockCoarse :
          t >= last_activity_time /\ DoSetMode(mode, raw, t)
    \/ \E t \in ClockCoarse : t >= last_activity_time /\ DoActivity(t)
    \/ \E c \in WakeEvents, t \in ClockCoarse :
          t >= last_activity_time /\ LightWake(c, t)
    \/ Reset
    \/ \E mode \in {POWER_MODE_DEEP_SLEEP, POWER_MODE_HIBERNATION},
          raw \in AdcCoarse, t \in ClockCoarse :
          t >= last_activity_time /\ DoSetModeSuspendFails(mode, raw, t)

SpecFault == Init /\ [][NextFault]_vars

----------------------------------------------------------------------------
(* The mode changes under configurations with long intervals *)

NextTimer ==
    \/ \E c \in TimerConfigs, t \in ClockCoarse : DoInit({c}, t)
    \/ \E mode \in Modes, raw \in AdcCoarse, t \in ClockCoarse :
          t >= last_activity_time /\ DoSetMode(mode, raw, t)
    \/ \E c \in WakeEvents, t \in ClockCoarse :
          t >= last_activity_time /\ LightWake(c, t)
    \/ Reset

SpecTimer == Init /\ [][NextTimer]_vars

----------------------------------------------------------------------------
(* The ULP program running while the chip is powered down *)

\* The ULP timer starts the loaded program at its entry point, for the
\* first time or after a halt.
UlpRun ==
    /\ pc = "deep"
    /\ hw.ulp_loaded
    /\ hw.ulp.ip \in {"idle", "halted"}
    /\ hw' = [hw EXCEPT !.ulp = [UlpIdle EXCEPT !.ip = "movi"]]
    /\ UNCHANGED <<rtc_state, config, current_mode, last_activity_time,
                   initialized, pc, wake_cause, altered, last_call>>

\* The ULP executes one instruction; pin: the alert input's level, 1 high
\* (not asserted), 0 low (asserted).
UlpStep(pin) ==
    /\ pc = "deep"
    /\ hw.ulp.ip \in UlpInstructions
    /\ hw.ulp.R3 < MaxUlpCount
    /\ hw' = [hw EXCEPT !.ulp = ulp_program(hw.ulp, pin)]
    /\ UNCHANGED <<rtc_state, config, current_mode, last_activity_time,
                   initialized, pc, wake_cause, altered, last_call>>

\* Boot, power-down, and the runs of the ULP program.
NextUlp ==
    \/ \E t \in ClockCoarse : DoInit({}, t)
    \/ \E mode \in {POWER_MODE_DEEP_SLEEP, POWER_MODE_HIBERNATION},
          raw \in AdcCoarse, t \in ClockCoarse :
          t >= last_activity_time /\ DoSetMode(mode, raw, t)
    \/ UlpRun
    \/ \E pin \in {0, 1} : UlpStep(pin)

SpecUlp == Init /\ [][NextUlp]_vars



----------------------------------------------------------------------------
(* The telemetry buffer operations on payloads of many lengths *)

NextBuffer ==
    \/ \E t \in ClockCoarse : DoInit({}, t)
    \/ \E p \in BufferPayloads : DoBufferTelemetry(p)
    \/ \E requested \in DrainRequests : DoGetBufferedTelemetry(requested)
    \/ DoClearBuffer

SpecBuffer == Init /\ [][NextBuffer]_vars

----------------------------------------------------------------------------
(* Single-byte changes of the retained record *)

NextChecksum ==
    \/ DoInit({}, 0)
    \/ \E p \in Payloads : DoBufferTelemetry(p)
    \/ DoSetAlert(TRUE)
    \/ \E mode \in {POWER_MODE_DEEP_SLEEP, POWER_MODE_HIBERNATION} :
          DoSetMode(mode, 2048, 15000)
    \/ AlterByte
    \/ \E c \in WakeEvents : DeepWake(c)

SpecChecksum == Init /\ [][NextChecksum]_vars

----------------------------------------------------------------------------
(* power_manager_init called more than once in a boot *)

NextReinit ==
    \/ \E t \in ClockCoarse : DoInit({}, t)
    \/ \E t \in ClockCoarse : DoInitAgain({}, t)
    \/ \E p \in Payloads : DoBufferTelemetry(p)
    \/ DoClearBuffer
    \/ \E alert \in BOOLEAN : DoSetAlert(alert)
    \/ \E mode \in {POWER_MODE_DEEP_SLEEP, POWER_MODE_HIBERNATION},
          raw \in AdcCoarse :
          DoSetMode(mode, raw, 330000)
    \/ \E c \in WakeEvents : DeepWake(c)

SpecReinit == Init /\ [][NextReinit]_vars

----------------------------------------------------------------------------
(* Calls made before power_manager_init *)

\* set_mode(DEEP_SLEEP or HIBERNATION) called in a boot in which
\* power_manager_init has not run: set_mode does not test initialized, and
\* config holds its load-time values (lines 80-93).
DoSetModeBeforeInit(mode, raw, t) ==
    /\ pc = "boot"
    /\ mode \in {POWER_MODE_DEEP_SLEEP, POWER_MODE_HIBERNATION}
    /\ LET m == power_manager_set_mode([Machine EXCEPT !.pc = "run"], mode, raw, t)
       IN  /\ Becomes(m)
           /\ last_call' = Call("set_mode", mode, Outcome(m, "true"), current_mode,
                                IF mode = POWER_MODE_DEEP_SLEEP THEN t ELSE 0, 0)
    /\ altered' = FALSE
    /\ UNCHANGED wake_cause

\* The mode changes and the wakes, with set_mode also called before init.
NextEarly ==
    \/ \E c \in DefaultConfigPtrs, t \in ClockCoarse : DoInit(c, t)
    \/ \E mode \in Modes, raw \in AdcCoarse, t \in ClockCoarse :
          t >= last_activity_time /\ DoSetMode(mode, raw, t)
    \/ \E c \in WakeEvents, t \in ClockCoarse :
          t >= last_activity_time /\ LightWake(c, t)
    \/ \E c \in WakeEvents : DeepWake(c)
    \/ Reset
    \/ \E mode \in {POWER_MODE_DEEP_SLEEP, POWER_MODE_HIBERNATION},
          raw \in AdcCoarse, t \in ClockCoarse :
          DoSetModeBeforeInit(mode, raw, t)

SpecEarly == Init /\ [][NextEarly]_vars

----------------------------------------------------------------------------
(* Steps of the calls, as seen in a pair of states *)

\* The step is a call of op that began with the CPU running.
CallStep(op) == pc = "run" /\ last_call'.op = op

\* The step is init at the start of a boot.
InitStep == pc = "boot" /\ pc' = "run"

\* The record's stored checksum is the checksum of its other fields.
ChecksumValid(r) == r.checksum = calculate_checksum(r)

----------------------------------------------------------------------------
(* C1 *)

\* C1: whenever the battery voltage process() reads is below
\* battery_critical_v, process() enters HIBERNATION and does nothing else,
\* from every current mode and for every idle time: the chip is powered down
\* with HIBERNATION persisted and the pins isolated, and the DEEP_SLEEP entry
\* (last_active_time store, radio shutdown) has not run.
C1_CriticalBatteryHibernates ==
    [][ ( /\ CallStep("process")
          /\ read_battery_voltage(last_call'.arg) < config.battery_critical_v )
        => ( /\ pc' = "deep"
             /\ last_call'.ret = "noreturn"
             /\ rtc_state'.current_mode = POWER_MODE_HIBERNATION
             /\ hw'.rtc_isolated
             /\ rtc_state'.last_active_time = rtc_state.last_active_time
             /\ hw'.wifi_started = hw.wifi_started ) ]_vars

\* process() was called in ACTIVE with the battery below critical and the
\* idle time above deep_sleep_timeout, and the chip hibernates.
C1_Witness ==
    /\ last_call.op = "process"
    /\ last_call.from = POWER_MODE_ACTIVE
    /\ last_call.idle > DefaultConfig.deep_sleep_timeout_ms
    /\ read_battery_voltage(last_call.arg) < DefaultConfig.battery_critical_v
    /\ pc = "deep"
    /\ rtc_state.current_mode = POWER_MODE_HIBERNATION

----------------------------------------------------------------------------
(* C2 *)

----------------------------------------------------------------------------
(* C3 *)

\* C3: when init() runs after a wake from DEEP_SLEEP or HIBERNATION (the wake
\* cause is not a cold boot) and the record was not altered while the chip
\* was down, the record is accepted: wake_count is one more than before and
\* every other field is as it was committed.
C3_ResumeRoundTrip ==
    [][ (InitStep /\ wake_cause # "UNDEFINED" /\ ~altered)
        => rtc_state' = [rtc_state EXCEPT !.wake_count = @ + 1] ]_vars

\* init() has accepted a record committed by DEEP_SLEEP that holds buffered
\* telemetry and a pending alert.
C3_Witness ==
    /\ last_call.op = "init"
    /\ wake_cause # "UNDEFINED"
    /\ rtc_state.wake_count = 1
    /\ rtc_state.current_mode = POWER_MODE_DEEP_SLEEP
    /\ rtc_state.buffer_index > 0
    /\ rtc_state.critical_alert_pending

----------------------------------------------------------------------------
(* C4 *)

\* C4: when init() runs on a cold boot, whatever the record holds, or on a
\* resume whose stored checksum differs from the recomputed one, the whole
\* record is zeroed (wake_count 0, cursor 0, a drain returns 0 bytes, no
\* alert), and init() completes with the manager initialized.
C4_CorruptionRecovery ==
    [][ (InitStep /\ (wake_cause = "UNDEFINED" \/ ~ChecksumValid(rtc_state)))
        => ( /\ rtc_state' = ZeroRecord
             /\ rtc_state'.wake_count = 0
             /\ rtc_state'.buffer_index = 0
             /\ power_manager_get_buffered_telemetry(rtc_state', U8 - 1) = 0
             /\ ~power_manager_has_alert(rtc_state')
             /\ initialized'
             /\ last_call'.ret = "void" ) ]_vars

\* init() has run on a resume (the wake cause is a wake source) and left a
\* zeroed record: the checksum did not match.
C4_Witness ==
    /\ last_call.op = "init"
    /\ wake_cause # "UNDEFINED"
    /\ initialized
    /\ rtc_state = ZeroRecord

----------------------------------------------------------------------------
(* C5 *)

\* The step is set_alert(false).
SetAlertFalseStep == CallStep("set_alert") /\ last_call'.arg = 0

\* The step alters the record of the powered-down chip.
CorruptStep == pc = "deep" /\ ~altered /\ altered'

\* The step is init on a cold boot or on a record altered during suspension.
ColdOrAlteredInitStep == InitStep /\ (wake_cause = "UNDEFINED" \/ altered)

----------------------------------------------------------------------------
(* C6 *)

\* C6 as claimed: set_mode(HIBERNATION) performs the persistence step of
\* set_mode(DEEP_SLEEP): when it powers the chip down, the record holds the
\* clock reading and the battery voltage of that moment, and is committed.
C6_HibernationPersistsLikeDeepSleep ==
    [][ \A raw \in AdcCoarse, t \in ClockCoarse :
          ( /\ t >= last_activity_time
            /\ current_mode # POWER_MODE_HIBERNATION
            /\ DoSetMode(POWER_MODE_HIBERNATION, raw, t) )
          => ( /\ rtc_state'.current_mode = POWER_MODE_HIBERNATION
               /\ rtc_state'.last_active_time = t
               /\ rtc_state'.battery_voltage = read_battery_voltage(raw)
               /\ ChecksumValid(rtc_state') ) ]_vars

----------------------------------------------------------------------------
(* C7 *)

\* C7: set_mode(X) with X the current mode returns true and changes nothing:
\* not the mode, the record and its checksum, the activity timer, the wake
\* sources, the GPIO state or the radio, and the processor keeps running.
C7_SetSameModeIsNoOp ==
    [][ (CallStep("set_mode") /\ last_call'.arg = current_mode)
        => ( /\ last_call'.ret = "true"
             /\ pc' = "run"
             /\ UNCHANGED <<rtc_state, config, current_mode, last_activity_time,
                            initialized, hw, wake_cause>> ) ]_vars

\* set_mode(LIGHT_SLEEP) was called in LIGHT_SLEEP and returned true.
C7_Witness ==
    /\ last_call.op = "set_mode"
    /\ last_call.arg = POWER_MODE_LIGHT_SLEEP
    /\ last_call.from = POWER_MODE_LIGHT_SLEEP
    /\ last_call.ret = "true"
    /\ current_mode = POWER_MODE_LIGHT_SLEEP
    /\ pc = "run"

----------------------------------------------------------------------------
(* C8 *)

\* C8: activity() leaves current_mode ACTIVE, from every mode, and sets
\* last_activity_time to the clock reading of the call, so that a process()
\* at that reading computes an idle time of zero.
C8_ActivityForcesActive ==
    [][ CallStep("activity")
        => ( /\ current_mode' = POWER_MODE_ACTIVE
             /\ last_activity_time' = last_call'.t
             /\ pc' = "run" ) ]_vars

\* activity() was called in LIGHT_SLEEP, after some idle time, and the mode
\* is ACTIVE.
C8_Witness ==
    /\ last_call.op = "activity"
    /\ last_call.from = POWER_MODE_LIGHT_SLEEP
    /\ last_call.t > 0
    /\ last_activity_time = last_call.t
    /\ current_mode = POWER_MODE_ACTIVE

----------------------------------------------------------------------------
(* C9 *)

\* C9: set_alert(true) called in LIGHT_SLEEP, DEEP_SLEEP or HIBERNATION
\* leaves current_mode ACTIVE and the persisted alert flag true.
C9_AlertPreemptsSleep ==
    [][ ( /\ CallStep("set_alert")
          /\ last_call'.arg = 1
          /\ current_mode \in {POWER_MODE_LIGHT_SLEEP, POWER_MODE_DEEP_SLEEP,
                               POWER_MODE_HIBERNATION} )
        => ( /\ current_mode' = POWER_MODE_ACTIVE
             /\ rtc_state'.critical_alert_pending
             /\ pc' = "run" ) ]_vars

\* set_alert(true) was called in LIGHT_SLEEP; the mode is ACTIVE and the
\* alert is pending.
C9_Witness ==
    /\ last_call.op = "set_alert"
    /\ last_call.arg = 1
    /\ last_call.from = POWER_MODE_LIGHT_SLEEP
    /\ current_mode = POWER_MODE_ACTIVE
    /\ rtc_state.critical_alert_pending

----------------------------------------------------------------------------
(* C10 *)

\* C10: when the battery voltage process() reads is at or above
\* battery_critical_v and below battery_low_v and the idle time is above
\* idle_timeout/2, process() enters DEEP_SLEEP from every current mode:
\* the chip is powered down with DEEP_SLEEP persisted.
C10_LowBatteryDeepSleeps ==
    [][ ( /\ CallStep("process")
          /\ read_battery_voltage(last_call'.arg) >= config.battery_critical_v
          /\ read_battery_voltage(last_call'.arg) < config.battery_low_v
          /\ last_call'.idle > config.idle_timeout_ms \div 2 )
        => ( /\ pc' = "deep"
             /\ last_call'.ret = "noreturn"
             /\ rtc_state'.current_mode = POWER_MODE_DEEP_SLEEP ) ]_vars

\* process() was called in LIGHT_SLEEP with the battery between the two
\* thresholds and an idle time between idle_timeout/2 and idle_timeout, where
\* no idle rule of ACTIVE applies, and the chip is in deep sleep.
C10_Witness ==
    /\ last_call.op = "process"
    /\ last_call.from = POWER_MODE_LIGHT_SLEEP
    /\ last_call.idle > DefaultConfig.idle_timeout_ms \div 2
    /\ last_call.idle <= DefaultConfig.idle_timeout_ms
    /\ read_battery_voltage(last_call.arg) >= DefaultConfig.battery_critical_v
    /\ read_battery_voltage(last_call.arg) < DefaultConfig.battery_low_v
    /\ pc = "deep"
    /\ rtc_state.current_mode = POWER_MODE_DEEP_SLEEP

----------------------------------------------------------------------------
(* C11 *)

\* The step is a process() call in which neither battery rule fires: the
\* voltage read is at or above battery_low_v, or at or above
\* battery_critical_v with an idle time of at most idle_timeout/2.
NoBatteryRuleStep ==
    /\ CallStep("process")
    /\ read_battery_voltage(last_call'.arg) >= config.battery_critical_v
    /\ \/ read_battery_voltage(last_call'.arg) >= config.battery_low_v
       \/ last_call'.idle <= config.idle_timeout_ms \div 2

\* C11: in a process() call in ACTIVE where no battery rule fires, the first
\* idle rule that matches decides: idle > deep_sleep_timeout powers the chip
\* down in DEEP_SLEEP; otherwise idle > idle_timeout enters light sleep;
\* otherwise idle > idle_timeout/2 gives MODEM_SLEEP; otherwise the mode
\* stays ACTIVE and the CPU keeps running.
C11_IdleRulesFirstMatch ==
    [][ (NoBatteryRuleStep /\ current_mode = POWER_MODE_ACTIVE)
        => LET idle == last_call'.idle
           IN  IF idle > config.deep_sleep_timeout_ms
               THEN /\ pc' = "deep"
                    /\ rtc_state'.current_mode = POWER_MODE_DEEP_SLEEP
               ELSE IF idle > config.idle_timeout_ms
               THEN /\ pc' = "light"
                    /\ hw'.wifi_ps = "MAX_MODEM"
                    /\ last_call'.ret = "blocked"
               ELSE IF idle > config.idle_timeout_ms \div 2
               THEN /\ pc' = "run"
                    /\ current_mode' = POWER_MODE_MODEM_SLEEP
               ELSE /\ pc' = "run"
                    /\ current_mode' = POWER_MODE_ACTIVE
                    /\ hw' = hw ]_vars

\* process() was called in ACTIVE with a healthy battery and an idle time
\* above idle_timeout and not above deep_sleep_timeout, and the CPU is in
\* light sleep.
C11_Witness ==
    /\ last_call.op = "process"
    /\ last_call.from = POWER_MODE_ACTIVE
    /\ read_battery_voltage(last_call.arg) >= config.battery_low_v
    /\ last_call.idle > config.idle_timeout_ms
    /\ last_call.idle <= config.deep_sleep_timeout_ms
    /\ pc = "light"

----------------------------------------------------------------------------
(* C12 *)

\* C12: a process() call in MODEM_SLEEP or LIGHT_SLEEP in which no battery
\* rule fires changes nothing, for every idle time: the mode, the record,
\* the platform state and the activity timer are as before and the CPU keeps
\* running.
C12_NoAutoEscalation ==
    [][ ( /\ NoBatteryRuleStep
          /\ current_mode \in {POWER_MODE_MODEM_SLEEP, POWER_MODE_LIGHT_SLEEP} )
        => ( /\ pc' = "run"
             /\ last_call'.ret = "void"
             /\ UNCHANGED <<rtc_state, config, current_mode, last_activity_time,
                            initialized, hw>> ) ]_vars

\* process() was called in LIGHT_SLEEP, after a light-sleep wake, with a
\* healthy battery and an idle time above deep_sleep_timeout; the mode is
\* still LIGHT_SLEEP and the CPU runs.
C12_Witness ==
    /\ last_call.op = "process"
    /\ last_call.from = POWER_MODE_LIGHT_SLEEP
    /\ read_battery_voltage(last_call.arg) >= config.battery_low_v
    /\ last_call.idle > config.deep_sleep_timeout_ms
    /\ current_mode = POWER_MODE_LIGHT_SLEEP
    /\ pc = "run"

----------------------------------------------------------------------------
(* C13 *)

\* The step powers the chip down in DEEP_SLEEP.
DeepSleepEntryStep ==
    pc = "run" /\ pc' = "deep" /\ rtc_state'.current_mode = POWER_MODE_DEEP_SLEEP

\* C13: on entry to DEEP_SLEEP the pre-suspend telemetry is emitted from the
\* record as it is persisted and committed (mode DEEP_SLEEP, the battery
\* voltage and the checksum the record holds at suspension) and while the
\* radios are still up; the radios are down at suspension; the suspend call
\* does not return, and while the chip is powered down the program does
\* nothing: no volatile state changes and the next program step is the boot
\* that runs init().
C13_DeepSleepEntryOrder ==
    [][ /\ DeepSleepEntryStep
           => /\ \E e \in hw'.emitted :
                    /\ e.mode = POWER_MODE_DEEP_SLEEP
                    /\ e.battery_voltage = rtc_state'.battery_voltage
                    /\ e.committed
                    /\ e.wifi_started
                    /\ e.uart_installed
              /\ ~hw'.wifi_started
              /\ ~hw'.bt_enabled
              /\ last_call'.ret = "noreturn"
              /\ current_mode' # POWER_MODE_DEEP_SLEEP
        /\ pc = "deep"
           => /\ pc' \in {"deep", "boot"}
              /\ UNCHANGED <<config, current_mode, last_activity_time, initialized>>
              /\ last_call' \in {last_call, NoCall} ]_vars

\* The chip is powered down in DEEP_SLEEP by a set_mode call that did not
\* return, telemetry was emitted with a battery voltage read at entry, and
\* the radios are down.
C13_Witness ==
    /\ pc = "deep"
    /\ last_call.op = "set_mode"
    /\ last_call.ret = "noreturn"
    /\ rtc_state.current_mode = POWER_MODE_DEEP_SLEEP
    /\ rtc_state.battery_voltage > 0
    /\ hw.emitted # {}
    /\ ~hw.wifi_started

----------------------------------------------------------------------------
(* C14 *)

\* The step is a set_mode(DEEP_SLEEP or HIBERNATION) call, from another mode,
\* whose suspend call came back: the CPU still runs afterwards.
SuspendFailedStep ==
    /\ CallStep("set_mode")
    /\ last_call'.arg \in {POWER_MODE_DEEP_SLEEP, POWER_MODE_HIBERNATION}
    /\ last_call'.arg # current_mode
    /\ pc' = "run"

\* C14 as claimed: when the suspend call of a DEEP_SLEEP or HIBERNATION
\* entry fails and returns, set_mode does not record the target mode as
\* current and does not return success.
C14_SuspendFailureIsLoud ==
    [][ SuspendFailedStep
        => ( /\ current_mode' \notin {POWER_MODE_DEEP_SLEEP, POWER_MODE_HIBERNATION}
             /\ last_call'.ret # "true" ) ]_vars

----------------------------------------------------------------------------
(* C15 *)

\* C15: when init() completes, on a cold boot or on a wake from DEEP_SLEEP or
\* HIBERNATION, the current mode is ACTIVE whatever mode the record holds;
\* and a powered-down chip leaves that state only by restarting at the boot
\* that runs init(), with current_mode at its load-time value ACTIVE.
C15_ActiveAfterInit ==
    [][ /\ InitStep
           => /\ current_mode' = POWER_MODE_ACTIVE
              /\ initialized'
        /\ (pc = "deep" /\ pc' # "deep")
           => /\ pc' = "boot"
              /\ current_mode' = POWER_MODE_ACTIVE
              /\ ~initialized' ]_vars

\* init() has accepted, after a wake, a record whose mode is HIBERNATION, and
\* the current mode is ACTIVE.
C15_Witness ==
    /\ last_call.op = "init"
    /\ wake_cause \in WakeEvents
    /\ rtc_state.current_mode = POWER_MODE_HIBERNATION
    /\ rtc_state.wake_count = 1
    /\ current_mode = POWER_MODE_ACTIVE
    /\ pc = "run"

----------------------------------------------------------------------------
(* C16 *)

----------------------------------------------------------------------------
(* C17 *)

\* C17 as claimed: every call that takes the running program from another
\* mode into ACTIVE leaves the radio's power-save mode off, for every
\* configuration.
C17_ActiveRestoresRadio ==
    [][ ( /\ pc = "run"
          /\ pc' = "run"
          /\ current_mode # POWER_MODE_ACTIVE
          /\ current_mode' = POWER_MODE_ACTIVE )
        => hw'.wifi_ps = "NONE" ]_vars

----------------------------------------------------------------------------
(* C18 *)

\* C18: the wake sources enabled when the processor is suspended are those of
\* the mode, whatever transitions came before: timer and wake pin when light
\* sleep begins; timer, wake pin, and the ULP wake exactly when
\* config.enable_ulp is set, when the chip powers down in DEEP_SLEEP; timer
\* and wake pin and nothing else when it powers down in HIBERNATION.  A call
\* that leaves the CPU running (a transition to ACTIVE or MODEM_SLEEP among
\* them) changes no wake source and no timer.  (The timer's duration is the
\* subject of C19.)
C18_WakeSourcesMatchMode ==
    [][ /\ (pc = "run" /\ pc' = "light")
           => hw'.wake_sources = {"TIMER", "EXT0"}
        /\ DeepSleepEntryStep
           => hw'.wake_sources = {"TIMER", "EXT0"}
                                   \cup (IF config.enable_ulp THEN {"ULP"} ELSE {})
        /\ ( /\ pc = "run"
             /\ pc' = "deep"
             /\ rtc_state'.current_mode = POWER_MODE_HIBERNATION )
           => hw'.wake_sources = {"TIMER", "EXT0"}
        /\ (pc = "run" /\ pc' = "run")
           => /\ hw'.wake_sources = hw.wake_sources
              /\ hw'.timer_us = hw.timer_us ]_vars

\* The chip is powered down in DEEP_SLEEP with the ULP wake disabled (the
\* configuration has enable_ulp false), after a light sleep earlier in the
\* same boot had programmed its own wake sources.
C18_Witness ==
    /\ pc = "deep"
    /\ rtc_state.current_mode = POWER_MODE_DEEP_SLEEP
    /\ wake_cause \in WakeEvents
    /\ hw.wake_sources = {"TIMER", "EXT0"}
    /\ ~hw.ulp_loaded

----------------------------------------------------------------------------
(* C19 *)

\* The step powers the chip down in HIBERNATION.
HibernationEntryStep ==
    pc = "run" /\ pc' = "deep" /\ rtc_state'.current_mode = POWER_MODE_HIBERNATION

\* C19 as claimed: the wake-timer duration programmed at a suspension is the
\* configured interval in microseconds, without loss: telemetry_interval_ms
\* x 1000 for LIGHT_SLEEP, heartbeat_interval_ms x 1000 for DEEP_SLEEP and
\* heartbeat_interval_ms x 10000 for HIBERNATION.
C19_TimerDurationExact ==
    [][ /\ (pc = "run" /\ pc' = "light")
           => Widen(hw'.timer_us) = Micros(config.telemetry_interval_ms, 1000)
        /\ DeepSleepEntryStep
           => Widen(hw'.timer_us) = Micros(config.heartbeat_interval_ms, 1000)
        /\ HibernationEntryStep
           => Widen(hw'.timer_us) = Micros(config.heartbeat_interval_ms, 10000)
      ]_vars

----------------------------------------------------------------------------
(* C20 *)

\* What the wake programming of a mode sets: the enabled wake sources, the
\* timer duration and the GPIO configuration.
WakeProgramming(h) ==
    [ wake_sources   |-> h.wake_sources,
      timer_us       |-> h.timer_us,
      unused_pins    |-> h.unused_pins,
      uart_installed |-> h.uart_installed,
      rtc_isolated   |-> h.rtc_isolated ]

\* The machine of the current state on platform state h.
MachineOn(h) == [Machine EXCEPT !.hw = h]

\* C20: at every suspension the wake sources, the timer duration and the
\* GPIO configuration are those that programming the mode once, on the
\* platform as it is after a boot, produces, whatever was programmed before
\* in the session; and programming the same mode again on the result changes
\* none of them.
C20_WakeProgrammingIdempotent ==
    [][ /\ (pc = "run" /\ pc' = "light")
           => /\ WakeProgramming(hw')
                   = WakeProgramming(enter_light_sleep(MachineOn(BootHw)).hw)
              /\ WakeProgramming(enter_light_sleep(MachineOn(hw')).hw)
                   = WakeProgramming(hw')
        /\ DeepSleepEntryStep
           => /\ WakeProgramming(hw')
                   = WakeProgramming(prepare_deep_sleep(MachineOn(BootHw), 0, 0).hw)
              /\ WakeProgramming(prepare_deep_sleep(MachineOn(hw'), 0, 0).hw)
                   = WakeProgramming(hw')
        /\ HibernationEntryStep
           => /\ WakeProgramming(hw')
                   = WakeProgramming(prepare_hibernation(MachineOn(BootHw)).hw)
              /\ WakeProgramming(prepare_hibernation(MachineOn(hw')).hw)
                   = WakeProgramming(hw') ]_vars

\* Light sleep has been entered from ACTIVE for the second time in a boot:
\* an earlier light sleep ended by a wake, and the wake sources are timer and
\* wake pin.
C20_Witness ==
    /\ pc = "light"
    /\ wake_cause \in WakeEvents
    /\ last_call.from = POWER_MODE_ACTIVE
    /\ hw.wake_sources = {"TIMER", "EXT0"}
    /\ hw.unused_pins = "input_pulldown"

----------------------------------------------------------------------------
(* C21 *)

\* C21 as claimed: a run of the ULP program halts after at most
\* ULP_LOOP_COUNT iterations of its loop: the iteration counter R3 never
\* passes ULP_LOOP_COUNT, it halts when the counter has reached it, and a run
\* that sampled the alert input asserted (low) has signalled the wake when it
\* halts.
C21_UlpProgramHalts ==
    /\ hw.ulp.R3 <= ULP_LOOP_COUNT
    /\ hw.ulp.R3 = ULP_LOOP_COUNT => hw.ulp.ip \in {"bl", "halt_counted", "halted"}
    /\ (hw.ulp.ip = "halted" /\ hw.ulp.R3 < ULP_LOOP_COUNT) => hw.ulp.woke

----------------------------------------------------------------------------
(* C22 *)

\* C22 as claimed: with config.enable_ulp set, whenever a call powers the
\* chip down in DEEP_SLEEP or HIBERNATION, the ULP program has been loaded in
\* this boot before the suspend call, whatever calls came before.
C22_UlpProgrammedBeforePowerDown ==
    [][ (pc # "deep" /\ pc' = "deep" /\ config.enable_ulp)
        => hw'.ulp_loaded ]_vars
----------------------------------------------------------------------------
(* The telemetry buffer *)

\* The step is a call of power_manager_buffer_telemetry with payload p.
AppendStep(p) == CallStep("buffer_telemetry") /\ last_call'.arg = p.len

\* C23: an append succeeds exactly when buffer_index + len < 256; on success
\* the len bytes are stored at [old cursor, old cursor + len), the bytes
\* before the old cursor are unchanged and the cursor advances by exactly len.
C23_AppendStoresAtCursor ==
    [][ \A p \in BufferPayloads :
          AppendStep(p) =>
            /\ (last_call'.ret = "true") <=> (rtc_state.buffer_index + p.len < 256)
            /\ last_call'.ret = "true" =>
                  /\ \A i \in 0 .. p.len - 1 :
                        Byte(rtc_state'.telemetry_buffer,
                             rtc_state.buffer_index + i) = PayloadByte(p, i)
                  /\ \A i \in 0 .. rtc_state.buffer_index - 1 :
                        Byte(rtc_state'.telemetry_buffer, i)
                          = Byte(rtc_state.telemetry_buffer, i)
                  /\ rtc_state'.buffer_index = rtc_state.buffer_index + p.len ]_vars

\* 55 bytes appended to 200: the buffer holds 255 bytes, those of the first
\* payload followed by those of the second.
C23_Witness ==
    /\ last_call.op = "buffer_telemetry"
    /\ last_call.arg = 55
    /\ last_call.ret = "true"
    /\ rtc_state.buffer_index = 255
    /\ Byte(rtc_state.telemetry_buffer, 0) = 1
    /\ Byte(rtc_state.telemetry_buffer, 199) = 255
    /\ Byte(rtc_state.telemetry_buffer, 200) = 2
    /\ Byte(rtc_state.telemetry_buffer, 254) = 254

\* C24: an append that does not fit returns false and changes nothing: not
\* the buffer, not the cursor, not any other field of the record.
C24_FailedAppendChangesNothing ==
    [][ \A p \in BufferPayloads :
          (AppendStep(p) /\ rtc_state.buffer_index + p.len >= 256) =>
            /\ last_call'.ret = "false"
            /\ rtc_state' = rtc_state ]_vars

\* 60 bytes refused on a buffer of 200.
C24_Witness ==
    /\ last_call.op = "buffer_telemetry"
    /\ last_call.arg = 60
    /\ last_call.ret = "false"
    /\ rtc_state.buffer_index = 200
    /\ Byte(rtc_state.telemetry_buffer, 199) = 255
    /\ Byte(rtc_state.telemetry_buffer, 200) = 0

\* The step is a call of power_manager_get_buffered_telemetry asking for
\* max_len bytes.
DrainStep(max_len) ==
    CallStep("get_buffered_telemetry") /\ last_call'.arg = max_len

\* C25: a drain asking for max_len bytes returns exactly
\* min(buffer_index, max_len) bytes, the first bytes of the buffer, and leaves
\* the buffer and the cursor unchanged, for every max_len, those above the
\* capacity included: with 200 bytes buffered, a drain of 300 returns 200.
C25_DrainReturnsMin ==
    [][ \A max_len \in DrainRequests :
          DrainStep(max_len) =>
            /\ last_call'.ret.len
                  = IF rtc_state.buffer_index < max_len
                    THEN rtc_state.buffer_index ELSE max_len
            /\ \A i \in DOMAIN last_call'.ret.bytes :
                  last_call'.ret.bytes[i] = Byte(rtc_state.telemetry_buffer, i)
            /\ DOMAIN last_call'.ret.bytes = 0 .. last_call'.ret.len - 1
            /\ rtc_state' = rtc_state ]_vars

\* C26: clear resets the cursor to zero and zero-fills the storage, so that a
\* drain that follows returns no byte and an append of up to 255 bytes that
\* follows succeeds, from every buffer state; no other field of the record
\* changes.
C26_ClearEmptiesBuffer ==
    [][ CallStep("clear_buffer") =>
          /\ rtc_state'.buffer_index = 0
          /\ \A i \in 0 .. BUFFER_SIZE - 1 :
                Byte(rtc_state'.telemetry_buffer, i) = 0
          /\ \A max_len \in DrainRequests :
                power_manager_get_buffered_telemetry(rtc_state', max_len) = 0
          /\ \A len \in 0 .. 255 : ~buffer_full(rtc_state', len)
          /\ \A p \in BufferPayloads :
                power_manager_buffer_telemetry(rtc_state', p).buffer_index = p.len
          /\ rtc_state' = [rtc_state EXCEPT !.buffer_index = 0,
                                             !.telemetry_buffer = ZeroBuffer] ]_vars

\* A full buffer of 255 bytes has been cleared.
C26_Witness ==
    /\ last_call.op = "clear_buffer"
    /\ last_call.arg = 255
    /\ rtc_state.buffer_index = 0
    /\ rtc_state.telemetry_buffer = ZeroBuffer

\* C27: no wraparound: the cursor stays within 0..255, no byte is written at
\* or beyond the cursor (so none outside the storage), no append changes a
\* byte appended before it, and an append whose bytes were not stored
\* returned false.
C27_NoWraparound ==
    [][ /\ rtc_state'.buffer_index \in 0 .. 255
        /\ \A i \in DOMAIN rtc_state'.telemetry_buffer :
              i \in 0 .. rtc_state'.buffer_index - 1
        /\ \A p \in BufferPayloads :
              AppendStep(p) =>
                /\ \A i \in 0 .. rtc_state.buffer_index - 1 :
                      Byte(rtc_state'.telemetry_buffer, i)
                        = Byte(rtc_state.telemetry_buffer, i)
                /\ (\E i \in 0 .. p.len - 1 :
                       \/ rtc_state.buffer_index + i > 255
                       \/ Byte(rtc_state'.telemetry_buffer,
                               rtc_state.buffer_index + i) # PayloadByte(p, i))
                   => last_call'.ret = "false" ]_vars

\* 56 bytes refused on a buffer of 200, which would have made the cursor 256.
C27_Witness ==
    /\ last_call.op = "buffer_telemetry"
    /\ last_call.arg = 56
    /\ last_call.ret = "false"
    /\ rtc_state.buffer_index = 200
    /\ DOMAIN rtc_state.telemetry_buffer \subseteq 0 .. 199
----------------------------------------------------------------------------
(* The checksum *)

\* C28: the checksum is the byte sum of the record without its checksum
\* field: a change of the checksum field leaves the computed value as it was,
\* a change of any single byte before the checksum field changes the computed
\* value, and the init that follows finds the mismatch and zeroes the record.
C28_ChecksumDetectsByteChange ==
    [][ /\ (CorruptStep /\ rtc_state'.checksum # rtc_state.checksum)
              => calculate_checksum(rtc_state') = calculate_checksum(rtc_state)
        /\ (CorruptStep /\ rtc_state'.checksum = rtc_state.checksum)
              => /\ calculate_checksum(rtc_state') # calculate_checksum(rtc_state)
                 /\ ~ChecksumValid(rtc_state')
        /\ (InitStep /\ altered /\ wake_cause # "UNDEFINED")
              => rtc_state' = ZeroRecord ]_vars

\* The record was committed with 156 bytes buffered, the cursor byte became
\* 157 during the sleep, and the chip has woken: the computed value is one
\* more than the stored one.
C28_Witness ==
    /\ pc = "boot"
    /\ altered
    /\ wake_cause = "EXT0"
    /\ rtc_state.buffer_index = 157
    /\ SumBytes(rtc_state.telemetry_buffer) = 256
    /\ calculate_checksum(rtc_state) = rtc_state.checksum + 1
----------------------------------------------------------------------------
(* init called twice in a wake session *)

\* The CPU runs after a resume whose init accepted the record: only an
\* accepting init makes wake_count non-zero.
AcceptedSession ==
    pc = "run" /\ wake_cause # "UNDEFINED" /\ rtc_state.wake_count > 0

\* C29: after init accepts a valid record on a resume, the record's stored
\* checksum does not match the record until the next entry of DEEP_SLEEP or
\* HIBERNATION, and a second init with the same wake cause and no commit
\* in between zeroes the record.
C29_MismatchUntilNextCommit ==
    [][ /\ AcceptedSession' => ~ChecksumValid(rtc_state')
        /\ (AcceptedSession /\ CallStep("init")) => rtc_state' = ZeroRecord ]_vars

\* C29 as it holds: an init that accepts a valid record on a resume increments
\* wake_count and leaves the stored checksum as it was, so the record does not
\* match right after it; a second init that directly follows, or that runs
\* at any time the record does not match, zeroes the record; an init that
\* runs after uncommitted changes made the byte sum equal to the stored
\* checksum again accepts the record.
C29_InitTwiceZeroesRecord ==
    [][ /\ (InitStep /\ wake_cause # "UNDEFINED" /\ ChecksumValid(rtc_state))
              => /\ rtc_state' = [rtc_state EXCEPT !.wake_count = @ + 1]
                 /\ ~ChecksumValid(rtc_state')
        /\ (AcceptedSession /\ last_call.op = "init" /\ CallStep("init"))
              => rtc_state' = ZeroRecord
        /\ (AcceptedSession /\ ~ChecksumValid(rtc_state) /\ CallStep("init"))
              => rtc_state' = ZeroRecord
        /\ (AcceptedSession /\ ChecksumValid(rtc_state) /\ CallStep("init"))
              => rtc_state' = [rtc_state EXCEPT !.wake_count = @ + 1] ]_vars

\* A resume with 156 bytes buffered was accepted and init ran again: the
\* record is zero although the chip woke from a deep sleep.
C29_Witness ==
    /\ pc = "run"
    /\ last_call.op = "init"
    /\ last_call.from = POWER_MODE_ACTIVE
    /\ initialized
    /\ wake_cause = "TIMER"
    /\ rtc_state = ZeroRecord
    /\ hw.wifi_started

====
